---------------------------- MODULE Spec2Model ----------------------------
(***************************************************************************)
(* biodome: type-directed retrieval of configuration values from the       *)
(* process environment.  The module models                                 *)
(*   - the conversion layer of src/src/rawconv.rs (to_prim, to_bool,       *)
(*     to_vec) together with the TryFromEnv dispatch of src/src/lib.rs;    *)
(*   - the lookup layer of src/src/lib.rs (biodome, biodome_callable)      *)
(*     running against an environment store that another thread mutates.   *)
(*                                                                         *)
(* A Rust string is a sequence of one-character strings, so that trimming, *)
(* lower-casing, digit accumulation and TOML tokenising are computed the   *)
(* way the code computes them.                                             *)
(***************************************************************************)
EXTENDS Integers, Sequences, FiniteSets, TLC

VARIABLES
    stored,       \* sequential harness: the value given to the variable
    convTy,       \* sequential harness: the target type T of the call
    convDefault,  \* sequential harness: the default handed to biodome
    out,          \* sequential harness: what T::try_from_env returned
    ret,          \* sequential harness: how the biodome call ended
    written,      \* sequential harness: the literals the value was written from
    env,          \* the process environment: key -> stored value
    call,         \* the biodome call / accessor invocation in progress
    outcome,      \* how the last finished call ended
    acc,          \* the closure built by biodome_callable, once constructed
    log           \* bookkeeping of the call in progress (reads, conversions)

vars == <<stored, convTy, convDefault, out, ret, written, env, call, outcome, acc, log>>
convVars == <<stored, convTy, convDefault, out, ret, written>>
storeVars == <<env, call, outcome, acc, log>>

-----------------------------------------------------------------------------
(* Bounds of the model.                                                    *)

\* numeric inputs are the decimal numerals of 0..MaxNum, signed and zero-padded
MaxNum == 300
\* number of leading zeros put in front of a numeral
MaxZeros == 1
\* raw strings over ConvAlphabet are enumerated exhaustively up to this length
MaxLen == 2
\* whitespace characters put around a word on each side
MaxPad == 1
\* number of elements of a generated literal array
MaxElems == 2

-----------------------------------------------------------------------------
(* Results: Result::Ok, Result::Err and a panic unwinding out of the call. *)

Ok(v) == [tag |-> "Ok", val |-> v]
Err(e) == [tag |-> "Err", err |-> e]
Panic(m) == [tag |-> "Panic", msg |-> m]

None == [tag |-> "None"]
Some(v) == [tag |-> "Some", val |-> v]

-----------------------------------------------------------------------------
(* Characters.                                                             *)

LowerCase == <<"a","b","c","d","e","f","g","h","i","j","k","l","m",
               "n","o","p","q","r","s","t","u","v","w","x","y","z">>
UpperCase == <<"A","B","C","D","E","F","G","H","I","J","K","L","M",
               "N","O","P","Q","R","S","T","U","V","W","X","Y","Z">>
DecDigits == <<"0","1","2","3","4","5","6","7","8","9">>

\* char::to_lowercase
char_to_lowercase(c) ==
    IF \E i \in 1..26 : UpperCase[i] = c
    THEN LowerCase[CHOOSE i \in 1..26 : UpperCase[i] = c]
    ELSE c

\* str::to_lowercase
to_lowercase(s) == [i \in 1..Len(s) |-> char_to_lowercase(s[i])]

\* char::is_whitespace, on the characters of the model
is_whitespace(c) == c \in {" ", "\t", "\n", "\r"}

\* str::trim: drop leading and trailing whitespace
trim(s) ==
    LET keep == {i \in 1..Len(s) : ~is_whitespace(s[i])}
    IN  IF keep = {} THEN <<>>
        ELSE LET first == CHOOSE i \in keep : \A j \in keep : i <= j
                 last  == CHOOSE i \in keep : \A j \in keep : j <= i
             IN  SubSeq(s, first, last)

\* char::to_digit(10); -1 stands for None
to_digit(c) ==
    IF \E i \in 1..10 : DecDigits[i] = c
    THEN (CHOOSE i \in 1..10 : DecDigits[i] = c) - 1
    ELSE -1

-----------------------------------------------------------------------------
(* Integer targets.  biodome implements TryFromEnv for every integer       *)
(* width by the same line; the model carries the two 8-bit types, whose    *)
(* range limits the numerals of the model cross.                           *)

IntTypes == {"u8", "i8"}
is_signed_ty(ty) == ty = "i8"
MIN(ty) == IF ty = "u8" THEN 0 ELSE -128
MAX(ty) == IF ty = "u8" THEN 255 ELSE 127

\* the digit loop with the overflow checks lost: the running value is reduced
\* into the width of the type (two's complement wrap-around)
RECURSIVE wrapping_accumulate(_, _, _, _)
wrapping_accumulate(digits, result, is_positive, ty) ==
    IF digits = <<>> THEN Ok(result)
    ELSE LET x == to_digit(Head(digits))
             wide == IF is_positive THEN result * 10 + x ELSE result * 10 - x
             wrapped == ((wide - MIN(ty)) % (MAX(ty) - MIN(ty) + 1)) + MIN(ty)
         IN  IF x < 0 THEN Err("InvalidDigit")
             ELSE wrapping_accumulate(Tail(digits), wrapped, is_positive, ty)

\* the digit loop of <int as FromStr>::from_str: checked_mul by the radix,
\* then checked_add (checked_sub for a negative numeral) of the digit
RECURSIVE accumulate(_, _, _, _)
accumulate(digits, result, is_positive, ty) ==
    IF digits = <<>> THEN Ok(result)
    ELSE LET x == to_digit(Head(digits))
             overflow == IF is_positive THEN "PosOverflow" ELSE "NegOverflow"
             mul == result * 10
             nxt == IF is_positive THEN mul + x ELSE mul - x
         IN  IF x < 0 THEN Err("InvalidDigit")
             ELSE IF mul > MAX(ty) \/ mul < MIN(ty) THEN Err(overflow)
             ELSE IF nxt > MAX(ty) \/ nxt < MIN(ty) THEN Err(overflow)
             ELSE accumulate(Tail(digits), nxt, is_positive, ty)

\* <int as FromStr>::from_str, which s.parse() calls: no trimming, an
\* optional sign ('-' only for a signed type), then decimal digits
from_str(s, ty) ==
    IF s = <<>> THEN Err("Empty")
    ELSE IF Len(s) = 1 /\ s[1] \in {"+", "-"} THEN Err("InvalidDigit")
    ELSE IF s[1] = "+" THEN accumulate(Tail(s), 0, TRUE, ty)
    ELSE IF s[1] = "-" /\ is_signed_ty(ty) THEN accumulate(Tail(s), 0, FALSE, ty)
    ELSE accumulate(s, 0, TRUE, ty)

\* rawconv::to_prim: s.parse().map_err(|err| "parse error")
to_prim(s, ty) ==
    LET r == from_str(s, ty)
    IN  IF r.tag = "Ok" THEN r ELSE Err("parse error")


-----------------------------------------------------------------------------
(* Boolean target.                                                         *)

TRUTHY_VALUES ==
    << <<"t","r","u","e">>, <<"t">>, <<"1">>, <<"y","e","s">>, <<"y">>,
       <<"o","k">>, <<"e","n","a","b","l","e">>,
       <<"e","n","a","b","l","e","d">>, <<"a","c","t","i","v","e">>,
       <<"o","n">> >>

\* to_bool that compares the raw string, neither trimmed nor lower-cased
to_bool_verbatim(s) ==
    \E i \in 1..Len(TRUTHY_VALUES) : TRUTHY_VALUES[i] = s

\* rawconv::to_bool: TRUTHY_VALUES.iter().any(|&v| v == &s.trim().to_lowercase())
to_bool(s) ==
    \E i \in 1..Len(TRUTHY_VALUES) : TRUTHY_VALUES[i] = to_lowercase(trim(s))

-----------------------------------------------------------------------------
(* The TOML literal parser that to_vec calls (the toml crate), for the     *)
(* literals of the model: arrays and inline tables of integers, decimals,  *)
(* booleans and quoted strings, on one line, without nesting or escapes.   *)

toml_ws(c) == c \in {" ", "\t"}

toml_trim(s) ==
    LET keep == {i \in 1..Len(s) : ~toml_ws(s[i])}
    IN  IF keep = {} THEN <<>>
        ELSE LET first == CHOOSE i \in keep : \A j \in keep : i <= j
                 last  == CHOOSE i \in keep : \A j \in keep : j <= i
             IN  SubSeq(s, first, last)

is_digit(c) == c \in {"0", "1", "2", "3", "4", "5", "6", "7", "8", "9"}

\* the pieces of s between the commas that stand outside a quoted string
RECURSIVE split_items(_, _, _)
split_items(s, cur, quote) ==
    IF s = <<>> THEN <<cur>>
    ELSE IF quote = "" /\ Head(s) \in {"\"", "'"}
        THEN split_items(Tail(s), Append(cur, Head(s)), Head(s))
    ELSE IF quote # "" /\ Head(s) = quote
        THEN split_items(Tail(s), Append(cur, Head(s)), "")
    ELSE IF quote = "" /\ Head(s) = ","
        THEN <<cur>> \o split_items(Tail(s), <<>>, "")
    ELSE split_items(Tail(s), Append(cur, Head(s)), quote)

\* the value of a run of digits and underscores
RECURSIVE digits_value(_, _)
digits_value(s, n) ==
    IF s = <<>> THEN n
    ELSE IF Head(s) = "_" THEN digits_value(Tail(s), n)
    ELSE digits_value(Tail(s), n * 10 + to_digit(Head(s)))

\* a TOML run of decimal digits: underscores only between two digits
digit_run(s) ==
    /\ s # <<>>
    /\ \A i \in 1..Len(s) : is_digit(s[i]) \/ s[i] = "_"
    /\ \A i \in 1..Len(s) :
           s[i] = "_" => /\ i > 1 /\ i < Len(s)
                         /\ is_digit(s[i-1]) /\ is_digit(s[i+1])

\* a TOML decimal integer part: no leading zero unless it is the lone zero
int_digits(s) == digit_run(s) /\ (s[1] = "0" => Len(s) = 1)

unsigned_part(s) == IF s # <<>> /\ s[1] \in {"+", "-"} THEN Tail(s) ELSE s
is_negative(s) == s # <<>> /\ s[1] = "-"

\* the fraction digits as f64's Display prints them: no trailing zeros, but
\* at least one digit
RECURSIVE strip_zeros(_)
strip_zeros(f) ==
    IF Len(f) > 1 /\ f[Len(f)] = "0" THEN strip_zeros(SubSeq(f, 1, Len(f) - 1))
    ELSE f

\* what the parser yields: a toml::Value, or a syntax error
Toml(v) == [ok |-> TRUE, val |-> v]
TomlError == [ok |-> FALSE]

\* a decimal: integer part, the dot at position d, fraction digits
float_of(neg, body, d) ==
    IF int_digits(SubSeq(body, 1, d - 1)) /\ digit_run(SubSeq(body, d + 1, Len(body)))
    THEN Toml([kind |-> "Float", neg |-> neg,
               ip |-> digits_value(SubSeq(body, 1, d - 1), 0),
               frac |-> strip_zeros(SelectSeq(SubSeq(body, d + 1, Len(body)), is_digit))])
    ELSE TomlError

\* a number, the sign taken off
number_of(neg, body) ==
    IF int_digits(body)
    THEN Toml([kind |-> "Integer",
               n |-> IF neg THEN 0 - digits_value(body, 0) ELSE digits_value(body, 0)])
    ELSE IF Cardinality({i \in 1..Len(body) : body[i] = "."}) = 1
    THEN float_of(neg, body, CHOOSE i \in 1..Len(body) : body[i] = ".")
    ELSE TomlError

\* a basic ("...") or literal ('...') string with nothing to unescape
is_quoted(tok) ==
    /\ Len(tok) >= 2
    /\ tok[1] \in {"\"", "'"}
    /\ tok[Len(tok)] = tok[1]
    /\ \A i \in 2..(Len(tok) - 1) : tok[i] \notin {tok[1], "\\"}

\* one scalar literal
parse_scalar(tok) ==
    IF tok = <<"t","r","u","e">> THEN Toml([kind |-> "Boolean", b |-> TRUE])
    ELSE IF tok = <<"f","a","l","s","e">> THEN Toml([kind |-> "Boolean", b |-> FALSE])
    ELSE IF is_quoted(tok) THEN Toml([kind |-> "String", s |-> SubSeq(tok, 2, Len(tok) - 1)])
    ELSE number_of(is_negative(tok), unsigned_part(tok))

\* the items between the commas, one trailing comma dropped
drop_trailing(toks) ==
    IF Len(toks) = 1 /\ toks[1] = <<>> THEN <<>>
    ELSE IF Len(toks) > 1 /\ toks[Len(toks)] = <<>> THEN SubSeq(toks, 1, Len(toks) - 1)
    ELSE toks

trim_all(pieces) == [i \in 1..Len(pieces) |-> toml_trim(pieces[i])]

array_items(inner) == drop_trailing(trim_all(split_items(inner, <<>>, "")))

array_of(toks) ==
    IF \A i \in 1..Len(toks) : parse_scalar(toks[i]).ok
    THEN Toml([kind |-> "Array",
               items |-> [i \in 1..Len(toks) |-> parse_scalar(toks[i]).val]])
    ELSE TomlError

value_of(t) ==
    IF Len(t) >= 2 /\ t[1] = "[" /\ t[Len(t)] = "]"
    THEN array_of(array_items(SubSeq(t, 2, Len(t) - 1)))
    ELSE parse_scalar(t)

\* the value bound to x in the document "x = <text>": an array of scalars,
\* or a scalar
parse_value(text) == value_of(toml_trim(text))

\* the decimal numeral of a natural number
RECURSIVE nat_to_string(_)
nat_to_string(n) ==
    IF n < 10 THEN <<DecDigits[n + 1]>>
    ELSE Append(nat_to_string(n \div 10), DecDigits[(n % 10) + 1])

int_to_string(n) == IF n < 0 THEN <<"-">> \o nat_to_string(0 - n) ELSE nat_to_string(n)

\* <toml::Value as Display>::fmt, which v.to_string() calls: the value
\* written back as TOML, a string within double quotes
value_to_string(v) ==
    CASE v.kind = "Integer" -> int_to_string(v.n)
      [] v.kind = "Float"   -> (IF v.neg THEN <<"-">> ELSE <<>>)
                               \o nat_to_string(v.ip) \o <<".">> \o v.frac
      [] v.kind = "Boolean" -> IF v.b THEN <<"t","r","u","e">> ELSE <<"f","a","l","s","e">>
      [] v.kind = "String"  -> <<"\"">> \o v.s \o <<"\"">>

-----------------------------------------------------------------------------
(* Sequence target.                                                        *)

\* <T as FromStr>::from_str for the element types of the model
elem_from_str(text, T) ==
    IF T \in IntTypes THEN from_str(text, T) ELSE Ok(text)

\* v.to_string().parse()
elem(v, T) == elem_from_str(value_to_string(v), T)

RECURSIVE SortedSeq(_)
SortedSeq(S) ==
    IF S = {} THEN <<>>
    ELSE <<CHOOSE x \in S : \A y \in S : x <= y>>
         \o SortedSeq(S \ {CHOOSE x \in S : \A y \in S : x <= y})

\* the collection gathered through a set: sorted, duplicates lost
collect_as_set(items, T) ==
    IF \E i \in 1..Len(items) : elem(items[i], T).tag = "Err"
    THEN Panic("unwrap on Err")
    ELSE IF T \in IntTypes
    THEN Ok(SortedSeq({elem(items[i], T).val : i \in 1..Len(items)}))
    ELSE Ok([i \in 1..Len(items) |-> elem(items[i], T).val])

\* out.iter().map(|v| v.to_string().parse().unwrap()).collect()
collect(items, T) ==
    IF \E i \in 1..Len(items) : elem(items[i], T).tag = "Err"
    THEN Panic("unwrap on Err")
    ELSE Ok([i \in 1..Len(items) |-> elem(items[i], T).val])

\* s.parse::<toml::Value>().unwrap(), then out["x"].as_array().unwrap()
array_then(doc, T) ==
    IF ~doc.ok THEN Panic("unwrap on Err")
    ELSE IF doc.val.kind # "Array" THEN Panic("unwrap on None")
    ELSE collect(doc.val.items, T)

\* rawconv::to_vec: every failure is an unwrap() that panics; the only
\* value returned is Ok
to_vec(s, T) == array_then(parse_value(s), T)

-----------------------------------------------------------------------------
(* Mapping target.  lib.rs calls rawconv::to_hashmap, which rawconv.rs     *)
(* does not hold; it is modelled from the specification, section 4.3: the  *)
(* raw string parsed as an inline table, keys as given, every value        *)
(* converted by the element rule, any failure a generic parse error.       *)

is_bare_key(k) ==
    /\ k # <<>>
    /\ \A i \in 1..Len(k) :
          \/ is_digit(k[i]) \/ k[i] \in {"_", "-"}
          \/ \E j \in 1..26 : k[i] = LowerCase[j] \/ k[i] = UpperCase[j]

pair_of(k, v) ==
    IF ~v.ok THEN [ok |-> FALSE]
    ELSE IF is_bare_key(k) THEN [ok |-> TRUE, key |-> k, val |-> v.val]
    ELSE IF is_quoted(k) THEN [ok |-> TRUE, key |-> SubSeq(k, 2, Len(k) - 1), val |-> v.val]
    ELSE [ok |-> FALSE]

pair_at(item, e) ==
    pair_of(toml_trim(SubSeq(item, 1, e - 1)),
            parse_scalar(toml_trim(SubSeq(item, e + 1, Len(item)))))

\* one "key = value" item of an inline table, cut at its first "="
parse_pair(item) ==
    IF \A i \in 1..Len(item) : item[i] # "=" THEN [ok |-> FALSE]
    ELSE pair_at(item, CHOOSE i \in 1..Len(item) :
                          item[i] = "=" /\ \A j \in 1..(i - 1) : item[j] # "=")

table_items(pieces) ==
    IF Len(pieces) = 1 /\ toml_trim(pieces[1]) = <<>> THEN <<>> ELSE pieces

table_of(items) ==
    IF \A i \in 1..Len(items) : parse_pair(items[i]).ok
    THEN [ok |-> TRUE, pairs |-> [i \in 1..Len(items) |-> parse_pair(items[i])]]
    ELSE [ok |-> FALSE]

table_body(t) ==
    IF Len(t) >= 2 /\ t[1] = "{" /\ t[Len(t)] = "}"
    THEN table_of(table_items(split_items(SubSeq(t, 2, Len(t) - 1), <<>>, "")))
    ELSE [ok |-> FALSE]

\* an inline table on one line: { k1 = v1, k2 = v2 }
parse_table(text) == table_body(toml_trim(text))

\* the last item written with key k
last_index(pairs, k) ==
    CHOOSE i \in 1..Len(pairs) :
        /\ pairs[i].key = k
        /\ \A j \in 1..Len(pairs) : pairs[j].key = k => j <= i

map_of(pairs, T) ==
    IF \E i \in 1..Len(pairs) : elem(pairs[i].val, T).tag = "Err"
    THEN Err("parse error")
    ELSE Ok([k \in {pairs[i].key : i \in 1..Len(pairs)} |->
                elem(pairs[last_index(pairs, k)].val, T).val])

table_then(tbl, T) ==
    IF ~tbl.ok THEN Err("parse error") ELSE map_of(tbl.pairs, T)

to_hashmap(s, T) == table_then(parse_table(s), T)

-----------------------------------------------------------------------------
(* Type-directed dispatch: the TryFromEnv implementations of lib.rs.       *)

VecTypes == {"Vec<u8>", "Vec<i8>", "Vec<String>"}
MapTypes == {"HashMap<String,u8>"}
CopyTypes == IntTypes \cup {"bool"}
Types == CopyTypes \cup {"String"} \cup VecTypes \cup MapTypes

\* the element type T of Vec<T> and of HashMap<String, T>
ElemTy(ty) ==
    CASE ty = "Vec<u8>" -> "u8"
      [] ty = "Vec<i8>" -> "i8"
      [] ty = "Vec<String>" -> "String"
      [] ty = "HashMap<String,u8>" -> "u8"

\* try_from_env with the HashMap implementation handing its value to the
\* array conversion instead of the table conversion
try_from_env_map_via_vec(ty, value) ==
    CASE ty = "String" -> Ok(value)
      [] ty = "bool" -> Ok(to_bool(value))
      [] ty \in IntTypes -> to_prim(value, ty)
      [] ty \in VecTypes \cup MapTypes -> to_vec(value, ElemTy(ty))

\* T::try_from_env(value)
try_from_env(ty, value) ==
    CASE ty = "String" -> Ok(value)
      [] ty = "bool" -> Ok(to_bool(value))
      [] ty \in IntTypes -> to_prim(value, ty)
      [] ty \in VecTypes -> to_vec(value, ElemTy(ty))
      [] ty \in MapTypes -> to_hashmap(value, ElemTy(ty))

-----------------------------------------------------------------------------
(* The environment store and the lookup layer.                             *)

\* what the process environment holds for a key: nothing, a string that is
\* valid Unicode, or an OS string that is not
NotPresent == [st |-> "NotPresent"]
NotUnicode == [st |-> "NotUnicode"]
Unicode(s) == [st |-> "Unicode", s |-> s]

\* std::env::var(key)
env_var(held) ==
    IF held.st = "Unicode" THEN Ok(held.s)
    ELSE IF held.st = "NotPresent" THEN Err("NotPresent")
    ELSE Err("NotUnicode")

\* Result::ok
ok(r) == IF r.tag = "Ok" THEN Some(r.val) ELSE None

\* the lookup that reads an unset variable as the empty string
lookup_or_empty(held) ==
    IF held.st = "Unicode" THEN Some(held.s) ELSE Some(<<>>)

\* the first line of biodome and of the closure: env::var(key).ok()
lookup(held) == ok(env_var(held))

\* Result::expect("Failed to parse"); a panic raised inside the conversion
\* keeps unwinding
expect(r) ==
    IF r.tag = "Err" THEN Panic("Failed to parse") ELSE r

\* the conversion the body performs, if any: T::try_from_env(&v)
convert(opt, ty) ==
    IF opt.tag = "Some" THEN Some(try_from_env(ty, opt.val)) ELSE None

\* how the body ends: .expect("Failed to parse") on the conversion's
\* result, or the default
finish(conv, default) ==
    IF conv.tag = "Some" THEN expect(conv.val) ELSE Ok(default)

\* the body shared by biodome and by the closure of biodome_callable:
\* if let Some(v) = opt { T::try_from_env(&v).expect(..) } else { default }
resolve(opt, ty, default) == finish(convert(opt, ty), default)

\* the number of conversions the body performs
conversions(opt) == IF opt.tag = "Some" THEN 1 ELSE 0

-----------------------------------------------------------------------------
(* Inputs of the model: the strings an environment variable is given.      *)

RECURSIVE StringsUpTo(_, _)
StringsUpTo(A, n) ==
    IF n = 0 THEN {<<>>}
    ELSE LET S == StringsUpTo(A, n - 1)
         IN  S \cup {Append(s, c) : s \in S, c \in A}

ConvAlphabet == {"0", "1", "9", "+", "-", " ", "t", "T", "y", "Y", ",", "[", "]"}
SmallStrings == StringsUpTo(ConvAlphabet, MaxLen)

char_to_uppercase(c) ==
    IF \E i \in 1..26 : LowerCase[i] = c
    THEN UpperCase[CHOOSE i \in 1..26 : LowerCase[i] = c]
    ELSE c
Shout(s) == [i \in 1..Len(s) |-> char_to_uppercase(s[i])]
Capitalize(s) == [i \in 1..Len(s) |-> IF i = 1 THEN char_to_uppercase(s[i]) ELSE s[i]]

BoolWords ==
    {TRUTHY_VALUES[i] : i \in 1..Len(TRUTHY_VALUES)} \cup
    { <<"0">>, <<"f","a","l","s","e">>, <<"n","o","p","e">>, <<>>,
      <<"n","o">>, <<"o","f","f">>, <<"o"," ","n">>, <<"y","e","s","s">>,
      <<"2">>, <<"t","r","u">>, <<"t","r","u","e","s">> }
Pads == StringsUpTo({" ", "\t", "\n"}, MaxPad)
BoolInputs ==
    SmallStrings \cup
    {pre \o w \o post : pre \in Pads, post \in Pads,
                        w \in BoolWords \cup {Shout(x) : x \in BoolWords}
                                        \cup {Capitalize(x) : x \in BoolWords}}

Zeros == {[i \in 1..k |-> "0"] : k \in 0..MaxZeros}
Signs == {<<>>, <<"+">>, <<"-">>}
Numerals == {sg \o z \o nat_to_string(n) : sg \in Signs, z \in Zeros, n \in 0..MaxNum}
NotNumerals ==
    { <<"n","o","t","_","a","_","n","u","m","b","e","r">>, <<"1",".","0">>,
      <<" ","1">>, <<"1"," ">>, <<"\t","1">>, <<"0","x","1","f">>,
      <<"1","_","0">>, <<"-","-","1">>, <<"+","-","1">>, <<"1","e","2">>,
      <<"1",",","0">>, <<"1","2","a">> }
IntInputs == SmallStrings \cup Numerals \cup NotNumerals

StringInputs ==
    SmallStrings \cup
    { <<"1","2","3">>, <<"i","n","f","o">>,
      <<" ","p","a","d","d","e","d"," ">>,
      <<"a",".","p","r","o","x","y",".","c","o","m",":","8","0","0","0">> }

\* the literals arrays and tables are written from
ElemTokens ==
    { <<"1">>, <<"2">>, <<"+","1">>, <<"-","1">>, <<"2","5","5">>,
      <<"2","5","6">>, <<"1","2","8">>, <<"-","1","2","8">>,
      <<"-","1","2","9">>, <<"1","_","0">>, <<"1",".","5">>,
      <<"\"","a","\"">>, <<"\"","b",":","8","\"">>, <<"x">> }
RECURSIVE TokenSeqs(_)
TokenSeqs(n) ==
    IF n = 0 THEN {<<>>}
    ELSE LET S == TokenSeqs(n - 1)
         IN  S \cup {Append(q, e) : q \in {x \in S : Len(x) = n - 1}, e \in ElemTokens}

RECURSIVE Join(_, _)
Join(toks, sep) ==
    IF toks = <<>> THEN <<>>
    ELSE IF Len(toks) = 1 THEN toks[1]
    ELSE toks[1] \o sep \o Join(Tail(toks), sep)

Separators == {<<",">>, <<","," ">>}
ArrayText(toks, sep) == <<"[">> \o Join(toks, sep) \o <<"]">>

NotArrays ==
    { <<>>, <<"a","b","c">>, <<"1">>, <<"[","1",","," ","2">>,
      <<"1",","," ","2","]">>, <<"[","1",",",",","2","]">>, <<"[",",","]">>,
      <<"{","a"," ","="," ","1","}">>, <<"\"","[","1","]","\"">>,
      <<"[","1"," ","2","]">>, <<"[","0","1","]">> }
ArraySamples ==
    { <<"[","1",","," ","2",","," ","3","]">>,
      <<"[","4",","," ","5",","," ","6","]">>,
      <<"[","3",",","1",",","3",",","2","]">>,
      <<"[","1",","," ","2",","," ","3",",","]">>,
      <<"["," ","1"," ",",","\t","2"," ","]">>, <<"[","]">>,
      <<"[","\"","a",".","b",":","8","0","\"",","," ","\"","c",".","d",":","8","1","\"","]">>,
      <<"[","1",".","5","0",","," ","2",".","0","]">>,
      <<"[","t","r","u","e",","," ","f","a","l","s","e","]">>,
      <<"[","'","a","'","]">> }

TableKeys == {<<"a">>, <<"b">>, <<"X","X">>, <<"x","x">>}
TableValues == {<<"1">>, <<"2">>, <<"2","5","5">>, <<"2","5","6">>, <<"x">>}
TablePairs == {<<k, v>> : k \in TableKeys, v \in TableValues}
RECURSIVE PairSeqs(_)
PairSeqs(n) ==
    IF n = 0 THEN {<<>>}
    ELSE LET S == PairSeqs(n - 1)
         IN  S \cup {Append(q, e) : q \in {x \in S : Len(x) = n - 1}, e \in TablePairs}
PairText(pr) == pr[1] \o <<" ","="," ">> \o pr[2]
TableText(pairs) ==
    <<"{">> \o Join([i \in 1..Len(pairs) |-> PairText(pairs[i])], <<","," ">>) \o <<"}">>
NotTables ==
    { <<>>, <<"a","b","c">>, <<"{","a"," ","="," ","1">>,
      <<"a"," ","="," ","1">>, <<"{","a"," ","1","}">>,
      <<"{","a"," ","="," ","1",",","}">>, <<"{","="," ","1","}">>,
      <<"[","1",","," ","2","]">>, <<"{","a"," ","="," ","}">> }
TableSamples ==
    { <<"{","a"," ","="," ","1",","," ","b"," ","="," ","2","}">>,
      <<"{","X","X","=","3",",","Y","Y","=","4","}">>, <<"{","}">>,
      <<"{"," ","a","=","1"," ","}">>,
      <<"{","\"","a"," ","b","\""," ","="," ","7","}">>,
      <<"{","a"," ","="," ","1",","," ","a"," ","="," ","2","}">>,
      <<"{","c","o","n","n","e","c","t"," ","="," ","5",".","0","}">> }

\* the defaults handed to biodome, by target type
Defaults(ty) ==
    CASE ty = "u8" -> {8, 123}
      [] ty = "i8" -> {-8, 123}
      [] ty = "bool" -> {TRUE, FALSE}
      [] ty = "String" -> {<<"i","n","f","o">>}
      [] ty = "Vec<u8>" -> {<<9>>, <<1, 2, 3>>}
      [] ty = "Vec<i8>" -> {<<9>>}
      [] ty = "Vec<String>" -> {<< <<"d","e","v">> >>}
      [] ty = "HashMap<String,u8>" -> {<<>>, [k \in {<<"X","X">>, <<"Y","Y">>} |-> 1]}

-----------------------------------------------------------------------------
(* The sequential harness: a fresh variable is given a value (or left      *)
(* unset) and biodome is called once, as the tests of the crate do.        *)

\* no literals on record: the value was given as plain text, or not at all
NothingWritten == [kind |-> "none"]

Idle == [pc |-> "idle", via |-> "none", key |-> "none", ty |-> "none",
         default |-> 0, opt |-> None]
NoLog == [held |-> NotPresent, reads |-> 0, conversions |-> 0]

Keys == {"NUM_THREADS"}
EnvValues ==
    { <<>>,
      <<"1","6">>,
      <<"y","e","s">>,
      <<"n","o","t","_","a","_","n","u","m","b","e","r">>,
      <<"[","1",","," ","2",","," ","3","]">>,
      <<"{","a"," ","="," ","1",","," ","b"," ","="," ","2","}">> }

InitConv ==
    /\ stored = NotPresent
    /\ convTy = "none"
    /\ convDefault = 0
    /\ out = None
    /\ ret = None
    /\ written = NothingWritten

InitStore ==
    /\ env = [k \in Keys |-> NotPresent]
    /\ call = Idle
    /\ outcome = None
    /\ acc = None
    /\ log = NoLog

Init == InitConv /\ InitStore

\* env::set_var / env::remove_var on a fresh name, then biodome(name, d)
Harness(held, ty, d, lits) ==
    /\ stored' = held
    /\ convTy' = ty
    /\ convDefault' = d
    /\ written' = lits
    /\ out' = convert(lookup(held), ty)
    /\ ret' = finish(out', d)
    /\ UNCHANGED storeVars

Unset == convTy = "none" /\ \E ty \in Types : \E d \in Defaults(ty) : Harness(NotPresent, ty, d, NothingWritten)

SetOsString == convTy = "none" /\ \E ty \in Types : \E d \in Defaults(ty) : Harness(NotUnicode, ty, d, NothingWritten)

SetBool == convTy = "none" /\ \E s \in BoolInputs : \E d \in Defaults("bool") :
    Harness(Unicode(s), "bool", d, NothingWritten)

SetInt == convTy = "none" /\ \E ty \in IntTypes : \E s \in IntInputs : \E d \in Defaults(ty) :
    Harness(Unicode(s), ty, d, NothingWritten)

SetString == convTy = "none" /\ \E s \in StringInputs : \E d \in Defaults("String") :
    Harness(Unicode(s), "String", d, NothingWritten)

SetArray == convTy = "none" /\ \E ty \in VecTypes : \E toks \in TokenSeqs(MaxElems) :
            \E sep \in Separators : \E d \in Defaults(ty) :
    Harness(Unicode(ArrayText(toks, sep)), ty, d, [kind |-> "array", toks |-> toks])

SetVecText == convTy = "none" /\ \E ty \in VecTypes : \E d \in Defaults(ty) :
              \E s \in SmallStrings \cup NotArrays \cup ArraySamples :
    Harness(Unicode(s), ty, d, NothingWritten)

SetTable == convTy = "none" /\ \E ty \in MapTypes : \E pairs \in PairSeqs(MaxElems) : \E d \in Defaults(ty) :
    Harness(Unicode(TableText(pairs)), ty, d, [kind |-> "table", pairs |-> pairs])

SetMapText == convTy = "none" /\ \E ty \in MapTypes : \E d \in Defaults(ty) :
              \E s \in NotTables \cup TableSamples :
    Harness(Unicode(s), ty, d, NothingWritten)

\* the next test starts from a fresh variable name
Fresh ==
    /\ convTy # "none"
    /\ stored' = NotPresent
    /\ convTy' = "none"
    /\ convDefault' = 0
    /\ out' = None
    /\ ret' = None
    /\ written' = NothingWritten
    /\ UNCHANGED storeVars

NextConv ==
    \/ Unset
    \/ SetOsString
    \/ SetBool
    \/ SetInt
    \/ SetString
    \/ SetArray
    \/ SetVecText
    \/ SetTable
    \/ SetMapText
    \/ Fresh

SpecConv == Init /\ [][NextConv]_vars

-----------------------------------------------------------------------------
(* The store: one thread calls biodome and invokes the closure, another    *)
(* sets and removes variables between any two of its steps.                *)

\* std::env::set_var(key, value) with a string value
SetVar(k, s) ==
    /\ env' = [env EXCEPT ![k] = Unicode(s)]
    /\ UNCHANGED <<call, outcome, acc, log>>
    /\ UNCHANGED convVars

\* std::env::set_var(key, value) with an OsString that is not valid Unicode
SetVarOs(k) ==
    /\ env' = [env EXCEPT ![k] = NotUnicode]
    /\ UNCHANGED <<call, outcome, acc, log>>
    /\ UNCHANGED convVars

\* std::env::remove_var(key)
RemoveVar(k) ==
    /\ env' = [env EXCEPT ![k] = NotPresent]
    /\ UNCHANGED <<call, outcome, acc, log>>
    /\ UNCHANGED convVars

\* the read of a call: let opt = env::var(key).ok()
Read(via, k, ty, d) ==
    /\ call.pc \in {"idle", "done"}
    /\ call' = [pc |-> "read", via |-> via, key |-> k, ty |-> ty,
                default |-> d, opt |-> lookup(env[k])]
    /\ log' = [held |-> env[k], reads |-> 1, conversions |-> 0]
    /\ outcome' = None
    /\ UNCHANGED <<env, acc>>
    /\ UNCHANGED convVars

\* the rest of a call: if let Some(v) = opt { ... } else { default }
Return(via) ==
    /\ call.pc = "read"
    /\ call.via = via
    /\ outcome' = resolve(call.opt, call.ty, call.default)
    /\ call' = [call EXCEPT !.pc = "done"]
    /\ log' = [log EXCEPT !.conversions = conversions(call.opt)]
    /\ UNCHANGED <<env, acc>>
    /\ UNCHANGED convVars

\* biodome(key, default), up to its read of the environment
BiodomeRead ==
    /\ call.via \in {"none", "biodome", "closure"}
    /\ \E k \in Keys : \E ty \in Types : \E d \in Defaults(ty) :
          Read("biodome", k, ty, d)

\* biodome(key, default), from the read to the return
BiodomeReturn ==
    /\ call.via = "biodome"
    /\ Return("biodome")

\* biodome_callable(key, default): the closure captures key and default
BiodomeCallable == \E k \in Keys : \E ty \in CopyTypes : \E d \in Defaults(ty) :
    /\ acc = None
    /\ acc' = Some([key |-> k, ty |-> ty, default |-> d])
    /\ UNCHANGED <<env, call, outcome, log>>
    /\ UNCHANGED convVars

\* one invocation of the closure, up to its read of the environment
InvokeRead ==
    /\ acc # None
    /\ Read("closure", acc.val.key, acc.val.ty, acc.val.default)

\* one invocation of the closure, from the read to the return
InvokeReturn ==
    /\ call.via = "closure"
    /\ Return("closure")

Next ==
    \/ \E k \in Keys : \E s \in EnvValues : SetVar(k, s)
    \/ \E k \in Keys : SetVarOs(k)
    \/ \E k \in Keys : RemoveVar(k)
    \/ BiodomeRead
    \/ BiodomeReturn
    \/ BiodomeCallable
    \/ InvokeRead
    \/ InvokeReturn

Spec == Init /\ [][Next]_vars

-----------------------------------------------------------------------------
(* What the claims speak of, stated without the code's operators.          *)

Blank(c) == c \in {" ", "\t", "\n", "\r"}

RECURSIVE StripLeft(_)
StripLeft(s) == IF s # <<>> /\ Blank(s[1]) THEN StripLeft(Tail(s)) ELSE s

RECURSIVE StripRight(_)
StripRight(s) ==
    IF s # <<>> /\ Blank(s[Len(s)]) THEN StripRight(SubSeq(s, 1, Len(s) - 1)) ELSE s

Folded(c) ==
    CASE \E i \in 1..26 : UpperCase[i] = c -> LowerCase[CHOOSE i \in 1..26 : UpperCase[i] = c]
      [] OTHER -> c

\* s with the surrounding whitespace trimmed and every letter lower-cased
Normalised(s) ==
    [i \in 1..Len(StripRight(StripLeft(s))) |-> Folded(StripRight(StripLeft(s))[i])]

TruthySet ==
    { <<"t","r","u","e">>, <<"t">>, <<"1">>, <<"y","e","s">>, <<"y">>, <<"o","k">>,
      <<"e","n","a","b","l","e">>, <<"e","n","a","b","l","e","d">>,
      <<"a","c","t","i","v","e">>, <<"o","n">> }

DigitOf(c) == CHOOSE n \in 0..9 : DecDigits[n + 1] = c
IsDigit(c) == \E n \in 0..9 : DecDigits[n + 1] = c

\* the number a run of digits denotes, underscores between digits skipped
RECURSIVE RunValue(_)
RunValue(ds) ==
    IF ds = <<>> THEN 0
    ELSE IF ds[Len(ds)] = "_" THEN RunValue(SubSeq(ds, 1, Len(ds) - 1))
    ELSE 10 * RunValue(SubSeq(ds, 1, Len(ds) - 1)) + DigitOf(ds[Len(ds)])

Signed(s) == s # <<>> /\ s[1] \in {"+", "-"}
Magnitude(s) == IF Signed(s) THEN Tail(s) ELSE s

\* an integer literal: an optional sign, then one or more decimal digits
IsLiteral(s) ==
    /\ Magnitude(s) # <<>>
    /\ \A i \in 1..Len(Magnitude(s)) : IsDigit(Magnitude(s)[i])

\* the same, in the syntax of the target: '-' only before a signed target
IsLiteralOf(ty, s) == IsLiteral(s) /\ (s[1] = "-" => ty = "i8")

\* a TOML integer literal: underscores allowed between digits, no
\* leading zero
IsTomlInteger(s) ==
    /\ Magnitude(s) # <<>>
    /\ IsDigit(Magnitude(s)[1]) /\ IsDigit(Magnitude(s)[Len(Magnitude(s))])
    /\ \A i \in 1..Len(Magnitude(s)) :
          \/ IsDigit(Magnitude(s)[i])
          \/ Magnitude(s)[i] = "_" /\ IsDigit(Magnitude(s)[i - 1]) /\ IsDigit(Magnitude(s)[i + 1])
    /\ (Magnitude(s)[1] = "0" => Len(Magnitude(s)) = 1)

Denoted(s) == IF s[1] = "-" THEN 0 - RunValue(Magnitude(s)) ELSE RunValue(Magnitude(s))

InRange(n, ty) == IF ty = "u8" THEN n \in 0..255 ELSE n \in -128..127

\* a quoted string literal and the string it denotes
IsStringLiteral(s) ==
    /\ Len(s) >= 2 /\ s[1] = "\"" /\ s[Len(s)] = "\""
    /\ \A i \in 2..(Len(s) - 1) : s[i] \notin {"\"", "\\"}
Contents(s) == SubSeq(s, 2, Len(s) - 1)

\* a TOML float literal: digits, a point, digits
IsTomlFloat(s) ==
    \E k \in 2..(Len(s) - 1) :
        /\ s[k] = "."
        /\ IsTomlInteger(SubSeq(s, 1, k - 1))
        /\ \A i \in (k + 1)..Len(s) : IsDigit(s[i])

\* a literal of the model that converts to the element type
Converts(tok, T) ==
    IF T = "String" THEN IsStringLiteral(tok) \/ IsTomlInteger(tok) \/ IsTomlFloat(tok)
    ELSE IsTomlInteger(tok) /\ InRange(Denoted(tok), T)

OneTwoThree == <<"[","1",","," ","2",","," ","3","]">>
TableAB == <<"{","a"," ","="," ","1",","," ","b"," ","="," ","2","}">>

\* what a call must yield by the claims: the default when the key holds
\* nothing; otherwise the conversion of the value held, a failure when the
\* value does not convert (a value that is no Unicode string never does)
Claimed(held, ty, d, o) ==
    IF held = NotPresent THEN o = Ok(d)
    ELSE IF held.st = "Unicode" /\ try_from_env(ty, held.s).tag = "Ok"
         THEN o = try_from_env(ty, held.s)
    ELSE o.tag = "Panic"

-----------------------------------------------------------------------------
(* The claims.                                                             *)

\* C1: for a key that the store does not hold, biodome(key, d) returns d
\* unchanged, whatever the type of d: no conversion is attempted and the
\* call does not fail.
C1_AbsentYieldsDefault ==
    (call.pc = "done" /\ call.via = "biodome" /\ log.held = NotPresent) =>
        /\ outcome.tag = "Ok"
        /\ log.conversions = 0
        /\ outcome.val = call.default

C1_Witness ==
    /\ call.pc = "done" /\ call.via = "biodome" /\ log.held = NotPresent
    /\ call.ty = "Vec<u8>" /\ call.default = <<1, 2, 3>>
    /\ outcome = Ok(<<1, 2, 3>>)

\* C2: only absence triggers the default: whenever the key is present,
\* biodome converts the stored value, returning the conversion or failing
\* when the value does not convert; it never answers a present value with
\* the default.
C2_OnlyAbsenceYieldsDefault ==
    (call.pc = "done" /\ call.via = "biodome" /\ log.held # NotPresent) =>
        /\ log.conversions = 1
        /\ Claimed(log.held, call.ty, call.default, outcome)

\* C3: for every string s, the boolean conversion yields true exactly when
\* s, trimmed and lower-cased, is one of the ten truthy words, and false
\* otherwise; it never fails, so biodome with a boolean default returns
\* that boolean for every present string.
C3_BoolExact ==
    (convTy = "bool" /\ stored.st = "Unicode") =>
        /\ out = Some(Ok(Normalised(stored.s) \in TruthySet))
        /\ ret = Ok(Normalised(stored.s) \in TruthySet)

C3_Witness ==
    /\ convTy = "bool"
    /\ stored = Unicode(<<" ","E","N","A","B","L","E","D","\n">>)
    /\ convDefault = FALSE
    /\ ret = Ok(TRUE)

\* C5: a literal array of n integer literals, each within the range of the
\* element type, converts to the sequence of exactly those n values in the
\* order written, duplicates kept; "[1, 2, 3]" yields [1, 2, 3].
C5_SequenceKeepsOrder ==
    /\ (/\ convTy \in {"Vec<u8>", "Vec<i8>"}
        /\ written.kind = "array"
        /\ \A i \in 1..Len(written.toks) : Converts(written.toks[i], ElemTy(convTy)))
       => /\ out = Some(Ok([i \in 1..Len(written.toks) |-> Denoted(written.toks[i])]))
          /\ ret = Ok([i \in 1..Len(written.toks) |-> Denoted(written.toks[i])])
    /\ (convTy \in {"Vec<u8>", "Vec<i8>"} /\ stored = Unicode(OneTwoThree))
       => ret = Ok(<<1, 2, 3>>)

C5_Witness ==
    /\ convTy = "Vec<u8>"
    /\ written = [kind |-> "array", toks |-> << <<"2","5","5">>, <<"2">> >>]
    /\ convDefault = <<9>>
    /\ ret = Ok(<<255, 2>>)

\* C6: an inline table with distinct keys and integer values converts to
\* the mapping with exactly the keys written (case kept) and the values
\* denoted, in place of the default; "{a = 1, b = 2}" yields {a: 1, b: 2};
\* an unset variable yields the default mapping unchanged.
C6_MappingRoundTrip ==
    convTy \in MapTypes =>
        /\ (/\ written.kind = "table"
            /\ \A i \in 1..Len(written.pairs) : Converts(written.pairs[i][2], ElemTy(convTy))
            /\ \A i, j \in 1..Len(written.pairs) :
                  written.pairs[i][1] = written.pairs[j][1] => i = j)
           => /\ ret.tag = "Ok"
              /\ DOMAIN ret.val = {written.pairs[i][1] : i \in 1..Len(written.pairs)}
              /\ \A i \in 1..Len(written.pairs) :
                    ret.val[written.pairs[i][1]] = Denoted(written.pairs[i][2])
        /\ stored = Unicode(TableAB) => ret = Ok([k \in {<<"a">>, <<"b">>} |->
                                                    IF k = <<"a">> THEN 1 ELSE 2])
        /\ stored = NotPresent => ret = Ok(convDefault)

C6_Witness ==
    /\ convTy \in MapTypes
    /\ written = [kind |-> "table",
                  pairs |-> << << <<"X","X">>, <<"2">> >>, << <<"x","x">>, <<"2","5","5">> >> >>]
    /\ DOMAIN convDefault = {<<"X","X">>, <<"Y","Y">>}
    /\ ret = Ok([k \in {<<"X","X">>, <<"x","x">>} |-> IF k = <<"X","X">> THEN 2 ELSE 255])

\* C7: for a raw string that is malformed, that is no array, or that has an
\* element which does not convert to the element type, the sequence
\* conversion returns the generic parse error as an error value to its
\* caller.
C7_SequenceFailureIsErrValue ==
    (/\ convTy \in VecTypes
     /\ stored.st = "Unicode"
     /\ \/ stored.s \in NotArrays
        \/ /\ written.kind = "array"
           /\ \E i \in 1..Len(written.toks) : ~Converts(written.toks[i], ElemTy(convTy)))
    => out = Some(Err("parse error"))

\* C8 as first stated: to_prim returns the denoted value for every integer
\* literal (optional sign, digits) within the range of the target type, and
\* the one generic "parse error" for every other string, out of range or
\* malformed alike.
C8_IntegerExactAnySign ==
    (convTy \in IntTypes /\ stored.st = "Unicode") =>
        IF IsLiteral(stored.s) /\ InRange(Denoted(stored.s), convTy)
        THEN out = Some(Ok(Denoted(stored.s)))
        ELSE out = Some(Err("parse error"))

\* C8, amended: to_prim returns the denoted value for every integer literal
\* in the syntax of the target type (an optional '+', or for a signed type
\* '-', then digits) within its range, and the one generic "parse error"
\* for every other string: out of range, malformed, or, for an unsigned
\* target, any text led by '-', "-0" included.  No value wraps, truncates
\* or saturates.
C8_IntegerExact ==
    (convTy \in IntTypes /\ stored.st = "Unicode") =>
        IF IsLiteralOf(convTy, stored.s) /\ InRange(Denoted(stored.s), convTy)
        THEN out = Some(Ok(Denoted(stored.s))) /\ ret = Ok(Denoted(stored.s))
        ELSE out = Some(Err("parse error")) /\ ret = Panic("Failed to parse")

C8_Witness ==
    /\ convTy = "u8"
    /\ stored = Unicode(<<"2","5","6">>)
    /\ out = Some(Err("parse error"))

\* C9: a literal array of quoted strings converts, for a string-sequence
\* target, to the sequence of the strings the literals denote: their
\* contents, without the quotes.
C9_StringElements ==
    (/\ convTy = "Vec<String>"
     /\ written.kind = "array"
     /\ \A i \in 1..Len(written.toks) : IsStringLiteral(written.toks[i]))
    => ret = Ok([i \in 1..Len(written.toks) |-> Contents(written.toks[i])])

\* C4: every invocation of the closure built once by biodome_callable
\* yields the conversion of the value the key holds at that invocation, or
\* the default if the key is absent then; never an earlier result.
C4_AccessorTracksStore ==
    (call.pc = "done" /\ call.via = "closure") =>
        Claimed(log.held, call.ty, call.default, outcome)

\* C10: a call reads the store once, and its outcome is the one the value
\* read determines (the default if absent, else its conversion), whatever
\* a concurrent writer does before or after the read; equal reads with an
\* equal default therefore give equal results.
C10_OneReadDecides ==
    call.pc = "done" =>
        /\ log.reads = 1
        /\ Claimed(log.held, call.ty, call.default, outcome)

\* A fact behind C4 and C10, short of either: a call whose one read finds
\* the key absent, or holding a Unicode string, yields what that read
\* determines, whatever the writer does meanwhile.
StringReadDecides ==
    (call.pc = "done" /\ log.held # NotUnicode) =>
        /\ log.reads = 1
        /\ Claimed(log.held, call.ty, call.default, outcome)

=============================================================================
